---- MODULE Spec2Model ----
(***************************************************************************)
(* Sales checkout, refund and stock ledger of the SmartPoint POS API.      *)
(*                                                                         *)
(* The state is the two collections the handlers write (the items' stock   *)
(* and the sale documents) and, for every request in flight, the position  *)
(* of its handler and the handler's local variables.  A handler is cut     *)
(* into steps at its database round trips (`await`): the code between two  *)
(* round trips runs without interruption, a round trip is atomic at the    *)
(* store.  Spec runs one request at a time; SpecConc interleaves them.     *)
(*                                                                         *)
(* An optional JavaScript value is a sequence: <<>> is undefined, <<v>> is *)
(* the value v.                                                            *)
(***************************************************************************)
EXTENDS Integers, Sequences, FiniteSets, TLC

(* ------------------------------ bounds -------------------------------- *)

\* The most sale documents the collection holds.
MaxSales == 1
\* The most sale documents in the specifications of several sales.
MaxSalesWide == 2
\* The most line items of a checkout request.
MaxLines == 2
\* The largest quantity of a line and of a stock adjustment.
MaxQty == 2
\* The largest stock value an operation may produce (guards of the
\* operations that increase stock).
MaxStock == 2
\* The most refund reasons appended to one sale's notes.
MaxNotes == 2

\* The request slots: the requests in flight at the same time, and the one
\* slot that serves the requests one after the other.
Procs == {1, 2}

SeqProcs == {1}

(* ------------------------------ helpers ------------------------------- *)

\* JavaScript's null, next to <<>> (undefined) and <<v>>: the sequence of
\* two elements.
Null == <<0, 0>>

\* The number an optional number is compared as: null compares as 0.
Num(o) == IF o = Null THEN 0 ELSE o[1]

\* JavaScript truthiness of an optional number: undefined, null and 0 are
\* falsy.
Truthy(o) == o # <<>> /\ o # Null /\ o[1] # 0

\* `o || d` for an optional number o.
OrElse(o, d) == IF Truthy(o) THEN o[1] ELSE d

Max(a, b) == IF a >= b THEN a ELSE b

RECURSIVE SumSubtotals(_)
\* items.reduce((sum, item) => sum + item.subtotal, 0)
SumSubtotals(ls) ==
    IF ls = <<>> THEN 0 ELSE ls[1].subtotal + SumSubtotals(Tail(ls))

RECURSIVE QtyOf(_, _)
\* The quantity a sale's lines hold of item i, summed over the lines.
QtyOf(ls, i) ==
    IF ls = <<>> THEN 0
    ELSE (IF ls[1].item = i THEN ls[1].quantity ELSE 0) + QtyOf(Tail(ls), i)

(* ------------------------------- users -------------------------------- *)

\* m1, m2: managers.  c1: a cashier of m1.  c0: a cashier whose record has
\* no managerId (the record the handlers' `!cashier.managerId` guards test).
UserIds == {"m1", "m2", "c1", "c0"}

UserRole(u) == IF u \in {"m1", "m2"} THEN "manager" ELSE "cashier"

UserManagerId(u) == IF u = "c1" THEN <<"m1">> ELSE <<>>

(* ------------------------------- items -------------------------------- *)

\* i1: entered by manager m1.  i2: entered by cashier c1 under m1.
\* i3: entered by c0, filed under manager m2.
ItemIds == {"i1", "i2", "i3"}

\* A well-formed product id that names no item.
NoItem == "nx"

ItemUserId(i) == CASE i = "i1" -> "m1" [] i = "i2" -> "c1" [] OTHER -> "c0"

ItemManagerId(i) == IF i = "i3" THEN "m2" ELSE "m1"

ItemPrice(i) == 10

\* A stock field with no validator.
AnyStock(n) == TRUE

\* itemSchema.stock: { min: 0 }, the validator item.save() and
\* findOneAndUpdate(..., { runValidators: true }) run.
ItemStockValid(n) == n >= 0

(* ------------------------- the Sale document -------------------------- *)

PaymentStatuses == {"pending", "completed", "partial", "failed", "refunded"}

\* The receipt number generateReceiptNumber() returns for the n-th insert:
\* clock digits and random characters, a value no stored sale and no client
\* carries.
GenReceipt(n) == 1000 + n

\* The schema's validators (they run before the pre('save') hook, on the
\* values the handler set): the `min` and `required` rules of the line
\* items and of the sale's own fields.
SaleValid(d) ==
    /\ \A j \in 1..Len(d.items) :
          /\ d.items[j].price >= 0
          /\ d.items[j].quantity >= 1
          /\ d.items[j].subtotal >= 0
    /\ d.subtotal >= 0
    /\ d.tax >= 0
    /\ d.discount >= 0
    /\ d.total >= 0
    /\ d.paymentStatus \in PaymentStatuses
    /\ d.paidAmount \notin {<<>>, Null} => d.paidAmount[1] >= 0
    /\ d.change \notin {<<>>, Null} => d.change[1] >= 0
    /\ d.managerId # <<>>
    /\ (d.userId # d.managerId[1]) => d.cashierId # <<>>

\* The status derived with the test for a shortfall first, as the checkout
\* handler orders its tests.
ShortfallFirstStatus(paid, total) ==
    IF Num(paid) < total THEN "partial"
    ELSE IF paid = <<0>> THEN "pending"
    ELSE "completed"

\* The status the pre('save') hook derives from a defined paidAmount and
\* the total: `=== 0` is false of null, `>=` compares null as 0.
DerivedStatus(paid, total) ==
    IF paid = <<0>> THEN "pending"
    ELSE IF Num(paid) >= total THEN "completed"
    ELSE "partial"

\* A hook that derives the change and the status and keeps the subtotal
\* and total the document was given.
PreSaveDeclared(d) ==
    [d EXCEPT
        !.change = IF d.paidAmount # <<>> /\ d.change = <<>>
                   THEN <<Max(0, Num(d.paidAmount) - d.total)>>
                   ELSE d.change,
        !.paymentStatus = IF d.paidAmount # <<>>
                          THEN DerivedStatus(d.paidAmount, d.total)
                          ELSE d.paymentStatus]

\* A hook that leaves the status of a document alone when it is refunded
\* or failed.
PreSaveSticky(d) ==
    LET sub == SumSubtotals(d.items)
        tot == sub + d.tax - d.discount
    IN  [d EXCEPT
            !.subtotal = sub,
            !.total = tot,
            !.paymentStatus = IF d.paidAmount # <<>>
                                 /\ d.paymentStatus \notin {"refunded", "failed"}
                              THEN DerivedStatus(d.paidAmount, tot)
                              ELSE d.paymentStatus]

\* saleSchema.pre('save'): subtotal and total from the lines, change when
\* it is undefined, paymentStatus whenever paidAmount is defined.
PreSave(d) ==
    LET sub == SumSubtotals(d.items)
        tot == sub + d.tax - d.discount
    IN  [d EXCEPT
            !.subtotal = sub,
            !.total = tot,
            !.change = IF d.paidAmount # <<>> /\ d.change = <<>>
                       THEN <<Max(0, Num(d.paidAmount) - tot)>>
                       ELSE d.change,
            !.paymentStatus = IF d.paidAmount # <<>>
                              THEN DerivedStatus(d.paidAmount, tot)
                              ELSE d.paymentStatus]

\* The schema's defaults, which new Sale(...) and the loading of a stored
\* document give the fields that are undefined.
SaleDefaults(d) ==
    [d EXCEPT !.paidAmount = IF @ = <<>> THEN <<0>> ELSE @,
              !.change = IF @ = <<>> THEN <<0>> ELSE @]

\* The payment status the checkout handler computes before the save.
CheckoutStatus(finalPaidAmount, finalTotal) ==
    IF finalPaidAmount < finalTotal THEN "partial"
    ELSE IF finalPaidAmount = 0 THEN "pending"
    ELSE "completed"

\* new Sale({...}) of the checkout handler.
CheckoutSale(u, body, receiptNumber, saleItems, calculatedSubtotal, managerId, cashierId) ==
    LET finalTotal == OrElse(body.total, calculatedSubtotal)
        finalPaidAmount == OrElse(body.paidAmount, 0)
        finalChange == OrElse(body.change, Max(0, finalPaidAmount - finalTotal))
    IN  [receiptNumber |-> receiptNumber,
         items |-> saleItems,
         subtotal |-> calculatedSubtotal,
         total |-> finalTotal,
         tax |-> body.tax,
         discount |-> body.discount,
         paidAmount |-> <<finalPaidAmount>>,
         change |-> <<finalChange>>,
         paymentStatus |-> CheckoutStatus(finalPaidAmount, finalTotal),
         notes |-> 0,
         userId |-> u,
         managerId |-> managerId,
         cashierId |-> cashierId]

\* The line the checkout loop pushes for request line l of an item whose
\* stored price is itemPrice.
SaleLine(l, itemPrice) ==
    LET price == OrElse(l.price, itemPrice)
    IN  [item |-> l.productId,
         price |-> price,
         quantity |-> l.quantity,
         subtotal |-> OrElse(l.subtotal, price * l.quantity)]

(* ------------------------------- state -------------------------------- *)

VARIABLES
    stock,   \* stock[i]: the stored stock of item i
    sales,   \* the sale collection, in insertion order (the index is the _id)
    pc,      \* pc[p]: where the handler of request slot p stands
    loc,     \* loc[p]: the handler's local variables
    last,    \* the request answered last, until the next one arrives
    stock0,  \* the stock when the latest request arrived
    sales0,  \* the sale collection when the latest request arrived
    before   \* when the request answered before the latest arrival was a
             \* successful checkout: its sale and the stock when it arrived

vars == <<stock, sales, pc, loc, last, stock0, sales0, before>>

\* Every item's stock before the first request.
InitStock == 2

\* The locals of a slot that runs no handler.
NoLoc ==
    [op |-> "none", user |-> "m1",
     k |-> 0, line |-> <<>>, doc |-> 0, saleItems |-> <<>>,
     calculatedSubtotal |-> 0, sale |-> 0, saleDoc |-> <<>>,
     receiptNumber |-> <<>>, item |-> "", mode |-> "", qty |-> 0]

NoLast == [op |-> "none", resp |-> "none", sale |-> 0]

Init ==
    /\ stock = [i \in ItemIds |-> InitStock]
    /\ sales = <<>>
    /\ pc = [p \in Procs |-> "idle"]
    /\ loc = [p \in Procs |-> NoLoc]
    /\ last = NoLast
    /\ stock0 = stock
    /\ sales0 = sales
    /\ before = <<>>

\* A slot takes a new request when it runs none.
CanStart(p) == pc[p] = "idle"

\* A request arrives: the collections as they are now are recorded.
Arrive ==
    /\ stock0' = stock
    /\ sales0' = sales
    /\ before' = IF last.op = "checkout" /\ last.resp = "201"
                 THEN <<[sale |-> last.sale, stock |-> stock0]>>
                 ELSE <<>>

\* The locals of a request of kind op by user u that has just arrived.
Arrived(op, u) == [NoLoc EXCEPT !.op = op, !.user = u]

\* The handler whose locals are l answers with r, about sale n, and ends.
Answer(p, l, r, n) ==
    /\ pc' = [pc EXCEPT ![p] = "idle"]
    /\ loc' = [loc EXCEPT ![p] = NoLoc]
    /\ last' = [op |-> l.op, resp |-> r, sale |-> n]

Respond(p, r) == Answer(p, loc[p], r, loc[p].sale)

\* The checkouts that have not yet inserted their sale.
Inserting == {q \in Procs : pc[q] \in {"co_loop", "co_save"}}

(* ------------------------------ checkout ------------------------------ *)

\* A decrement of one unit whatever the quantity.
DecrementedByOne(docStock, quantity) == docStock - 1

\* item.stock -= quantity, on the document read.
DecrementedStock(docStock, quantity) == docStock - quantity

\* A restore of one unit whatever the quantity.
RestoredByOne(docStock, quantity) == docStock + 1

\* item.stock += saleItem.quantity, on the document read.
RestoredStock(docStock, quantity) == docStock + quantity

\* The request's line items: the product id (an item's, or one that names
\* no item), the quantity (0 is invalid), and the optional price and
\* subtotal.
LinePrices == {<<>>}

LineSubtotals == {<<>>}

Lines ==
    [productId : ItemIds \cup {NoItem}, quantity : 0..MaxQty,
     price : LinePrices, subtotal : LineSubtotals]

\* An index that is not unique: no receipt number is refused.
NeverTaken(r) == FALSE

\* A stored sale carries receipt number r.
ReceiptTaken(r) == \E j \in 1..Len(sales) : sales[j].receiptNumber = r

\* Room for one more sale document in a collection of up to n, or a
\* receipt number the unique index will reject.
CanInsert(n, receiptNumber) ==
    \/ Len(sales) + Cardinality(Inserting) < n
    \/ receiptNumber # <<>> /\ ReceiptTaken(receiptNumber[1])

\* POST /checkout, up to the loop over the lines: the request is rejected
\* when it has no items, or no total or paidAmount.  hasItems and
\* hasRequired say whether the body passes the two tests; receiptNumber is
\* the body's.
CheckoutStart(p, u, hasItems, hasRequired, receiptNumber) ==
    /\ CanStart(p)
    /\ Arrive
    /\ UNCHANGED <<stock, sales>>
    /\ IF ~hasItems \/ ~hasRequired
       THEN Answer(p, Arrived("checkout", u), "400_input", 0)
       ELSE /\ pc' = [pc EXCEPT ![p] = "co_loop"]
            /\ loc' = [loc EXCEPT ![p] =
                         [Arrived("checkout", u) EXCEPT !.receiptNumber = receiptNumber]]
            /\ last' = NoLast

\* The loop's next line l: its validation and Item.findOne({_id, userId:
\* req.user.id, isActive: true}).  The handler keeps the document it read.
CheckoutFind(p, l) ==
    /\ pc[p] = "co_loop"
    /\ UNCHANGED <<stock0, sales0, before>>
    /\ UNCHANGED <<stock, sales>>
    /\ IF l.quantity <= 0
       THEN Respond(p, "400_line")
       ELSE IF l.productId \notin ItemIds \/ ItemUserId(l.productId) # loc[p].user
       THEN Respond(p, "404_item")
       ELSE /\ pc' = [pc EXCEPT ![p] = "co_save"]
            /\ loc' = [loc EXCEPT ![p] =
                         [@ EXCEPT !.line = <<l>>, !.doc = stock[l.productId]]]
            /\ UNCHANGED last

\* The rest of the iteration: the stock test on the document read, the sale
\* line, and item.stock -= quantity; item.save(), which writes the value
\* computed from the document read.
CheckoutSave(p) ==
    /\ pc[p] = "co_save"
    /\ UNCHANGED <<stock0, sales0, before>>
    /\ LET l == loc[p].line[1]
           newStock == DecrementedStock(loc[p].doc, l.quantity)
           saleLine == SaleLine(l, ItemPrice(l.productId))
       IN  IF loc[p].doc < l.quantity
           THEN /\ Respond(p, "400_stock")
                /\ UNCHANGED <<stock, sales>>
           ELSE IF ~ItemStockValid(newStock)
           THEN /\ Respond(p, "500")
                /\ UNCHANGED <<stock, sales>>
           ELSE /\ stock' = [stock EXCEPT ![l.productId] = newStock]
                /\ pc' = [pc EXCEPT ![p] = "co_loop"]
                /\ loc' = [loc EXCEPT ![p] =
                             [@ EXCEPT !.k = @ + 1, !.line = <<>>, !.doc = 0,
                                       !.saleItems = Append(@, saleLine),
                                       !.calculatedSubtotal = @ + saleLine.subtotal]]
                /\ UNCHANGED <<sales, last>>

\* After the last line: the caller's manager, the sale document, its
\* validation, the pre-save hook and the insert (the unique index on
\* receiptNumber rejects a duplicate).  body holds the request's fields
\* other than the lines.
CheckoutPersist(p, body) ==
    /\ pc[p] = "co_loop"
    /\ UNCHANGED <<stock0, sales0, before>>
    /\ loc[p].k >= 1
    /\ LET u == loc[p].user
           managerId == IF UserRole(u) = "manager" THEN <<u>> ELSE UserManagerId(u)
           cashierId == IF UserRole(u) = "manager"
                        THEN (IF body.cashierId # <<>> THEN body.cashierId ELSE <<>>)
                        ELSE <<u>>
           receiptNumber == IF loc[p].receiptNumber # <<>>
                            THEN loc[p].receiptNumber[1]
                            ELSE GenReceipt(Len(sales) + 1)
           d == SaleDefaults(
                    CheckoutSale(u, body, receiptNumber, loc[p].saleItems,
                                 loc[p].calculatedSubtotal, managerId, cashierId))
       IN  IF UserRole(u) = "cashier" /\ UserManagerId(u) = <<>>
           THEN /\ Respond(p, "400_link")
                /\ UNCHANGED <<stock, sales>>
           ELSE IF ~SaleValid(d) \/ ReceiptTaken(d.receiptNumber)
           THEN /\ Respond(p, "500")
                /\ UNCHANGED <<stock, sales>>
           ELSE /\ sales' = Append(sales, PreSave(d))
                /\ Answer(p, loc[p], "201", Len(sales) + 1)
                /\ UNCHANGED stock

\* A checkout inside a transaction: when the process stops, the store
\* returns to the stock it held when the request arrived.
CheckoutAborted(p) ==
    /\ pc[p] \in {"co_loop", "co_save"}
    /\ UNCHANGED <<stock0, sales0, before>>
    /\ pc' = [pc EXCEPT ![p] = "idle"]
    /\ loc' = [loc EXCEPT ![p] = NoLoc]
    /\ last' = [op |-> "checkout", resp |-> "crashed", sale |-> 0,
                items |-> loc[p].saleItems]
    /\ stock' = stock0
    /\ UNCHANGED sales

\* The process stops while a checkout is in its loop (a crash, or a failure
\* nothing catches): the request is never answered, the store keeps what
\* the handler has saved.  The handler has no transaction and no
\* compensating write; its catch block only answers 500.
CheckoutCrash(p) ==
    /\ pc[p] \in {"co_loop", "co_save"}
    /\ UNCHANGED <<stock0, sales0, before>>
    /\ pc' = [pc EXCEPT ![p] = "idle"]
    /\ loc' = [loc EXCEPT ![p] = NoLoc]
    /\ last' = [op |-> "checkout", resp |-> "crashed", sale |-> 0,
                items |-> loc[p].saleItems]
    /\ UNCHANGED <<stock, sales>>

\* The fields of a checkout body other than its lines.
Totals == {<<20>>}

PaidAmounts == {<<-5>>, <<0>>, <<15>>, <<25>>}

Changes == {<<>>, <<3>>}

Taxes == {0, 2}

Discounts == {0, 10}

ReceiptNumbers == {<<>>, <<7>>}

\* The body's cashierId: none, or the id of a cashier who is not the
\* caller's.
BodyCashierIds == {<<>>, <<"c0">>}

CheckoutBodies ==
    [total : Totals, paidAmount : PaidAmounts, change : Changes,
     tax : Taxes, discount : Discounts, cashierId : BodyCashierIds]

(* ------------------------------- refund ------------------------------- *)

\* The refund handler's query: the sale by id, completed, and the caller's:
\* managerId for a manager, cashierId for a cashier.
RefundQuery(u, d) ==
    /\ d.paymentStatus = "completed"
    /\ IF UserRole(u) = "manager"
       THEN d.managerId = <<u>>
       ELSE d.cashierId = <<u>>

\* The fields doc.save() writes: those the handler or the pre-save hook
\* changed in the document since it was read; the stored document keeps
\* the others.
SaveSale(stored, read, saved) ==
    [f \in DOMAIN saved |-> IF saved[f] # read[f] THEN saved[f] ELSE stored[f]]

\* Room for one more refund of sale sid: for its reason in the notes, and
\* for the quantities of its lines in a stock of up to m.
CanRefund(sid, m) ==
    sid \in 1..Len(sales) =>
        /\ sales[sid].notes < MaxNotes
        /\ \A i \in ItemIds : stock[i] + QtyOf(sales[sid].items, i) <= m

\* PUT /:id/refund up to Sale.findOne(query): 404 when no sale matches.
RefundStart(p, u, sid) ==
    /\ CanStart(p)
    /\ Arrive
    /\ UNCHANGED <<stock, sales>>
    /\ IF sid \notin 1..Len(sales) \/ ~RefundQuery(u, sales[sid])
       THEN Answer(p, Arrived("refund", u), "404_sale", sid)
       ELSE /\ pc' = [pc EXCEPT ![p] = "rf_save"]
            /\ loc' = [loc EXCEPT ![p] =
                         [Arrived("refund", u) EXCEPT
                             !.sale = sid, !.saleDoc = <<sales[sid]>>]]
            /\ last' = NoLast

\* sale.paymentStatus = 'refunded'; the reason appended to the notes;
\* sale.save(), which runs the pre-save hook on the document.
RefundSave(p) ==
    /\ pc[p] = "rf_save"
    /\ UNCHANGED <<stock0, sales0, before>>
    /\ LET read == loc[p].saleDoc[1]
           set == [read EXCEPT !.paymentStatus = "refunded", !.notes = @ + 1]
           saved == PreSave(set)
       IN  /\ sales' = [sales EXCEPT ![loc[p].sale] = SaveSale(@, read, saved)]
           /\ pc' = [pc EXCEPT ![p] = "rf_loop"]
           /\ loc' = [loc EXCEPT ![p] = [@ EXCEPT !.saleDoc = <<saved>>, !.k = 0]]
    /\ UNCHANGED <<stock, last>>

\* The restore loop's next line: Item.findById(saleItem.item), by id alone.
\* A line whose item does not exist is skipped; after the last line the
\* handler answers.
RefundFind(p) ==
    /\ pc[p] = "rf_loop"
    /\ UNCHANGED <<stock0, sales0, before>>
    /\ UNCHANGED <<stock, sales>>
    /\ LET ls == loc[p].saleDoc[1].items
           k == loc[p].k + 1
       IN  IF k > Len(ls)
           THEN Respond(p, "200")
           ELSE IF ls[k].item \notin ItemIds
           THEN /\ loc' = [loc EXCEPT ![p] = [@ EXCEPT !.k = k]]
                /\ UNCHANGED <<pc, last>>
           ELSE /\ pc' = [pc EXCEPT ![p] = "rf_put"]
                /\ loc' = [loc EXCEPT ![p] =
                             [@ EXCEPT !.k = k, !.doc = stock[ls[k].item]]]
                /\ UNCHANGED last

\* item.stock += saleItem.quantity; item.save().
RefundPut(p) ==
    /\ pc[p] = "rf_put"
    /\ UNCHANGED <<stock0, sales0, before>>
    /\ LET l == loc[p].saleDoc[1].items[loc[p].k]
           newStock == RestoredStock(loc[p].doc, l.quantity)
       IN  IF ~ItemStockValid(newStock)
           THEN /\ Respond(p, "500")
                /\ UNCHANGED <<stock, sales>>
           ELSE /\ stock' = [stock EXCEPT ![l.item] = newStock]
                /\ pc' = [pc EXCEPT ![p] = "rf_loop"]
                /\ loc' = [loc EXCEPT ![p] = [@ EXCEPT !.doc = 0]]
                /\ UNCHANGED <<sales, last>>

(* ------------------------ bulk-sync, migration ------------------------ *)

\* The sale documents a client syncs: one line (its item may be another
\* manager's; its subtotal need not be price times quantity), and the
\* client's own subtotal, total, payment fields and owner fields.
SyncLines ==
    [item : {"i1", "i3"}, price : {10}, quantity : {1}, subtotal : {5, 10}]

SyncDocs ==
    [receiptNumber : ReceiptNumbers, items : {<<l>> : l \in SyncLines},
     subtotal : {0}, total : {0}, tax : {0}, discount : Discounts,
     paidAmount : {<<>>, Null, <<25>>}, change : {<<>>},
     paymentStatus : {"completed", "refunded"},
     managerId : {<<>>, <<"m1">>, <<"m2">>}, cashierId : {<<>>, <<"c1">>}]

\* POST /bulk-sync for one element sd of the request's array (the loop
\* handles each element on its own, inside its own try/catch): the
\* duplicate test on the caller's own sales, new Sale({...saleData,
\* userId}), its validation, the pre-save hook and the insert.
BulkSync(p, u, sd) ==
    /\ CanStart(p)
    /\ Arrive
    /\ UNCHANGED stock
    /\ LET d == SaleDefaults(
                   [receiptNumber |-> Num(sd.receiptNumber),
                    items |-> sd.items, subtotal |-> sd.subtotal,
                    total |-> sd.total, tax |-> sd.tax, discount |-> sd.discount,
                    paidAmount |-> sd.paidAmount, change |-> sd.change,
                    paymentStatus |-> sd.paymentStatus, notes |-> 0,
                    userId |-> u, managerId |-> sd.managerId,
                    cashierId |-> sd.cashierId])
       IN  IF \E j \in 1..Len(sales) :
                 /\ <<sales[j].receiptNumber>> = sd.receiptNumber
                 /\ sales[j].userId = u
           THEN /\ Answer(p, Arrived("sync", u), "200_duplicate", 0)
                /\ UNCHANGED sales
           ELSE IF sd.receiptNumber = <<>> \/ ~SaleValid(d)
                   \/ ReceiptTaken(d.receiptNumber)
           THEN /\ Answer(p, Arrived("sync", u), "200_failed", 0)
                /\ UNCHANGED sales
           ELSE /\ sales' = Append(sales, PreSave(d))
                /\ Answer(p, Arrived("sync", u), "200_synced", Len(sales) + 1)

\* The migration's query: paidAmount missing or null, or 0 on a completed
\* sale.
MigrateQuery(d) ==
    \/ d.paidAmount \in {<<>>, Null}
    \/ d.paidAmount = <<0>> /\ d.paymentStatus = "completed"

\* The paidAmount the migration decides for the loaded document d.
NewPaidAmount(d) ==
    CASE d.paymentStatus = "completed" -> <<d.total>>
      [] d.paymentStatus = "pending" -> <<0>>
      [] OTHER -> <<OrElse(d.paidAmount, 0)>>

\* The migration's loop body on a stored sale: nothing when the query does
\* not select it or the paidAmount is already the one decided; otherwise
\* the save, which the validator of paidAmount may reject (the error is
\* logged and the loop goes on).
MigrateSale(stored) ==
    LET read == SaleDefaults(stored)
        set == [read EXCEPT !.paidAmount = NewPaidAmount(read)]
    IN  IF ~MigrateQuery(stored) \/ set.paidAmount = read.paidAmount
           \/ set.paidAmount[1] < 0
        THEN stored
        ELSE SaveSale(stored, read, PreSave(set))

\* A run of migrations/update-paid-amounts.js, while no request is in
\* flight.
Migrate ==
    /\ \A p \in Procs : pc[p] = "idle"
    /\ Arrive
    /\ sales' = [j \in 1..Len(sales) |-> MigrateSale(sales[j])]
    /\ last' = [NoLast EXCEPT !.op = "migrate", !.resp = "done"]
    /\ UNCHANGED <<stock, pc, loc>>

(* ------------------------ stock adjust, update ------------------------ *)

\* The item query of the item endpoints: the item by id, active, in the
\* caller's scope (the manager's own id, or the cashier's managerId).
ItemInScope(u, i) ==
    /\ i \in ItemIds
    /\ IF UserRole(u) = "manager"
       THEN ItemManagerId(i) = u
       ELSE <<ItemManagerId(i)>> = UserManagerId(u)

\* parseInt(quantity) of a quantity that passed `quantity < 0`: a quantity
\* is counted in halves (h halves is the number h / 2), and parseInt reads
\* the digits before the decimal point.
ParseInt(h) == h \div 2

\* A switch whose `subtract` case does not clamp.
AdjustedUnclamped(mode, s, q) ==
    CASE mode = "add" -> s + q
      [] mode = "subtract" -> s - q
      [] OTHER -> q

\* The stock POST /:id/stock computes from the document's stock s and the
\* parsed quantity q.
AdjustedStock(mode, s, q) ==
    CASE mode = "add" -> s + q
      [] mode = "subtract" -> Max(0, s - q)
      [] OTHER -> q

AdjustModes == {"set", "add", "subtract"}

\* The quantity of a stock adjustment, in halves: missing, negative, or
\* 0, 0.5, 1, ... MaxQty.
AdjustQuantities == {<<>>} \cup {<<h>> : h \in -1..(2 * MaxQty)}

\* The quantities that are whole numbers.
WholeQuantities == {q \in AdjustQuantities : q # <<>> => q[1] % 2 = 0}

\* The adjustment of item i by user u, with operation mode and quantity q,
\* is answered r.
AnswerAdjust(p, u, i, mode, q, r) ==
    /\ pc' = [pc EXCEPT ![p] = "idle"]
    /\ loc' = [loc EXCEPT ![p] = NoLoc]
    /\ last' = [op |-> "adjust", resp |-> r, sale |-> 0,
                user |-> u, item |-> i, mode |-> mode, quantity |-> q]

\* POST /:id/stock up to Item.findOne(query).
AdjustStart(p, u, i, mode, q) ==
    /\ CanStart(p)
    /\ Arrive
    /\ (q # <<>> /\ q[1] >= 0 /\ i \in ItemIds)
          => AdjustedStock(mode, stock[i], ParseInt(q[1])) <= MaxStock
    /\ UNCHANGED <<stock, sales>>
    /\ IF q = <<>> \/ q[1] < 0
       THEN AnswerAdjust(p, u, i, mode, q, "400_input")
       ELSE IF UserRole(u) = "cashier" /\ UserManagerId(u) = <<>>
       THEN AnswerAdjust(p, u, i, mode, q, "400_link")
       ELSE IF ~ItemInScope(u, i)
       THEN AnswerAdjust(p, u, i, mode, q, "404_item")
       ELSE /\ pc' = [pc EXCEPT ![p] = "adj_save"]
            /\ loc' = [loc EXCEPT ![p] =
                         [Arrived("adjust", u) EXCEPT
                             !.item = i, !.mode = mode, !.qty = q[1],
                             !.doc = stock[i]]]
            /\ last' = NoLast

\* The switch on the operation, on the document read, and item.save().
AdjustSave(p) ==
    /\ pc[p] = "adj_save"
    /\ UNCHANGED <<stock0, sales0, before>>
    /\ UNCHANGED sales
    /\ LET l == loc[p]
           newStock == AdjustedStock(l.mode, l.doc, ParseInt(l.qty))
       IN  IF ~ItemStockValid(newStock)
           THEN /\ AnswerAdjust(p, l.user, l.item, l.mode, <<l.qty>>, "500")
                /\ UNCHANGED stock
           ELSE /\ stock' = [stock EXCEPT ![l.item] = newStock]
                /\ AnswerAdjust(p, l.user, l.item, l.mode, <<l.qty>>, "200")

\* PUT /:id with a `stock` field: one findOneAndUpdate with runValidators.
UpdateItem(p, u, i, newStock) ==
    /\ CanStart(p)
    /\ Arrive
    /\ UNCHANGED sales
    /\ IF UserRole(u) = "cashier" /\ UserManagerId(u) = <<>>
       THEN /\ Answer(p, Arrived("update", u), "400_link", 0)
            /\ UNCHANGED stock
       ELSE IF ~ItemStockValid(newStock)
       THEN /\ Answer(p, Arrived("update", u), "500", 0)
            /\ UNCHANGED stock
       ELSE IF ~ItemInScope(u, i)
       THEN /\ Answer(p, Arrived("update", u), "404_item", 0)
            /\ UNCHANGED stock
       ELSE /\ stock' = [stock EXCEPT ![i] = newStock]
            /\ Answer(p, Arrived("update", u), "200", 0)

(* -------------------------------- reads ------------------------------- *)

\* The role-based query of the sales reads (list, by id, by receipt number,
\* daily): managerId for a manager, cashierId for a cashier.
SaleReadQuery(u, d) ==
    IF UserRole(u) = "manager" THEN d.managerId = <<u>> ELSE d.cashierId = <<u>>

\* userFilter of the home dashboard: managerId for a manager, otherwise
\* userId or cashierId.
DashboardFilter(u, d) ==
    IF UserRole(u) = "manager"
    THEN d.managerId = <<u>>
    ELSE d.userId = u \/ d.cashierId = <<u>>

\* The cashiers whose record names manager m.
CashiersOf(m) == {c \in UserIds : UserRole(c) = "cashier" /\ UserManagerId(c) = <<m>>}

\* hasAccess of GET /api/items/:id.
ItemHasAccess(u, i) ==
    IF UserRole(u) = "manager"
    THEN \/ ItemUserId(i) = u
         \/ ItemManagerId(i) = u
         \/ ItemUserId(i) \in CashiersOf(u)
    ELSE \/ ItemUserId(i) = u
         \/ <<ItemUserId(i)>> = UserManagerId(u)
         \/ <<ItemManagerId(i)>> = UserManagerId(u)

\* A read by user u, of sale n when it names one, is answered r with the
\* sales whose ids are in docs and the items in items.
AnswerRead(op, u, r, n, docs, items) ==
    /\ last' = [op |-> op, resp |-> r, sale |-> n, user |-> u,
                docs |-> docs, items |-> items]
    /\ UNCHANGED <<stock, sales, pc, loc>>

\* The answers that are reads of sales or items.
ReadOps == {"list", "get", "home", "item", "items"}

\* GET /api/sales: the sales the role-based query matches.
ListSales(p, u) ==
    /\ CanStart(p)
    /\ Arrive
    /\ AnswerRead("list", u, "200", 0,
                  {j \in 1..Len(sales) : SaleReadQuery(u, sales[j])}, {})

\* GET /api/sales/:id: the sale by id and the role-based query, or 404.
GetSale(p, u, sid) ==
    /\ CanStart(p)
    /\ Arrive
    /\ IF sid \in 1..Len(sales) /\ SaleReadQuery(u, sales[sid])
       THEN AnswerRead("get", u, "200", sid, {sid}, {})
       ELSE AnswerRead("get", u, "404_sale", sid, {}, {})

\* { $ifNull: [field, 0] } of an optional number.
IfNull(o) == IF o \in {<<>>, Null} THEN 0 ELSE o[1]

\* `Number(tx.paidAmount) || 0`: NaN (of undefined) and 0 (of null) are
\* falsy.
NumberOrZero(o) == IF o \in {<<>>, Null} THEN 0 ELSE o[1]

RECURSIVE SumOfTotal(_)
\* $sum of the total over the matched documents ds.
SumOfTotal(ds) ==
    IF ds = <<>> THEN 0 ELSE ds[1].total + SumOfTotal(Tail(ds))

\* The revenue as the sum of the billed totals.
SumOfBilled(ds) == SumOfTotal(ds)

RECURSIVE SumOfPaid(_)
\* totalRevenue: { $sum: { $ifNull: ['$paidAmount', 0] } }
SumOfPaid(ds) ==
    IF ds = <<>> THEN 0 ELSE IfNull(ds[1].paidAmount) + SumOfPaid(Tail(ds))

RECURSIVE ManualSum(_)
\* allTodayTransactions.reduce((sum, tx) => sum + (Number(tx.paidAmount) || 0), 0)
ManualSum(ds) ==
    IF ds = <<>> THEN 0 ELSE NumberOrZero(ds[1].paidAmount) + ManualSum(Tail(ds))

RECURSIVE SumOfOutstanding(_)
\* totalOutstanding: { $sum: { $max: [0, { $subtract: [total, paidAmount] }] } }
SumOfOutstanding(ds) ==
    IF ds = <<>> THEN 0
    ELSE Max(0, ds[1].total - IfNull(ds[1].paidAmount)) + SumOfOutstanding(Tail(ds))

\* A report for user u over the sales whose ids are in docs is answered
\* with its figures.
AnswerReport(op, u, docs, figures) ==
    /\ last' = [op |-> op, resp |-> "200", sale |-> 0, user |-> u,
                docs |-> docs, items |-> {}, figures |-> figures]
    /\ UNCHANGED <<stock, sales, pc, loc>>

\* GET /finance/dashboard/home: the aggregation over the sales userFilter
\* matches (every sale of the collection is of today) and the manual sum
\* over the same match.
DashboardHome(p, u) ==
    /\ CanStart(p)
    /\ Arrive
    /\ LET matched == SelectSeq(sales, LAMBDA d : DashboardFilter(u, d))
       IN  AnswerReport("home", u,
                        {j \in 1..Len(sales) : DashboardFilter(u, sales[j])},
                        [todaySales |-> SumOfPaid(matched),
                         manualSum |-> ManualSum(matched),
                         todayOutstanding |-> SumOfOutstanding(matched)])

\* GET /api/items: the manager's items; a cashier's manager's items, 400
\* when the cashier has no manager.
ListItems(p, u) ==
    /\ CanStart(p)
    /\ Arrive
    /\ IF UserRole(u) = "cashier" /\ UserManagerId(u) = <<>>
       THEN AnswerRead("items", u, "400_link", 0, {}, {})
       ELSE AnswerRead("items", u, "200", 0, {}, {i \in ItemIds : ItemInScope(u, i)})

\* GET /api/items/:id: the item by id, then the access test.
GetItem(p, u, i) ==
    /\ CanStart(p)
    /\ Arrive
    /\ IF i \notin ItemIds
       THEN AnswerRead("item", u, "404_item", 0, {}, {})
       ELSE IF UserRole(u) = "cashier" /\ UserManagerId(u) = <<>>
       THEN AnswerRead("item", u, "400_link", 0, {}, {})
       ELSE IF ~ItemHasAccess(u, i)
       THEN AnswerRead("item", u, "403", 0, {}, {})
       ELSE AnswerRead("item", u, "200", 0, {}, {i})

\* Sale.getSalesReport(userId, ...): the completed sales whose userId is
\* the caller's (every sale of the collection is in the period).
SalesReportMatch(u, d) == d.userId = u /\ d.paymentStatus = "completed"

\* GET /finance/dashboard: currentRevenue = salesSummary[0]?.totalRevenue ||
\* salesSummary[0]?.totalSales || 0, of a $group that computes totalSales
\* (the sum of the total) and no totalRevenue.
FinanceDashboard(p, u) ==
    /\ CanStart(p)
    /\ Arrive
    /\ LET matched == SelectSeq(sales, LAMBDA d : SalesReportMatch(u, d))
       IN  AnswerReport("dashboard", u,
                        {j \in 1..Len(sales) : SalesReportMatch(u, sales[j])},
                        [revenue |-> SumOfTotal(matched)])

\* GET /sales/daily/:date: the sales of the role-based query and the
\* summary's totalSales (acc.totalSales += sale.total).
DailySales(p, u) ==
    /\ CanStart(p)
    /\ Arrive
    /\ LET matched == SelectSeq(sales, LAMBDA d : SaleReadQuery(u, d))
       IN  AnswerReport("daily", u,
                        {j \in 1..Len(sales) : SaleReadQuery(u, sales[j])},
                        [revenue |-> SumOfTotal(matched)])

\* The sales of manager u that cashier c rang.
CashierMatch(u, c, d) == d.managerId = <<u>> /\ d.cashierId = <<c>>

\* GET /sales/cashiers, the cashierStats entry of cashier c: for managers
\* only; totalSales: { $sum: '$total' } over the cashier's group.
CashierStats(p, u, c) ==
    /\ CanStart(p)
    /\ Arrive
    /\ IF UserRole(u) # "manager"
       THEN AnswerRead("stats", u, "403", 0, {}, {})
       ELSE LET matched == SelectSeq(sales, LAMBDA d : CashierMatch(u, c, d))
            IN  AnswerReport("stats", u,
                             {j \in 1..Len(sales) : CashierMatch(u, c, sales[j])},
                             [revenue |-> SumOfTotal(matched)])

\* `transaction.paidAmount || totalAmount` of the cashier-daily-sales
\* report.
PaidOrTotal(d) == OrElse(d.paidAmount, d.total)

RECURSIVE SumOfPaidOrTotal(_)
\* cashierData.totalSales += paidAmount
SumOfPaidOrTotal(ds) ==
    IF ds = <<>> THEN 0 ELSE PaidOrTotal(ds[1]) + SumOfPaidOrTotal(Tail(ds))

RECURSIVE CashierOutstanding(_)
\* cashierData.outstandingBalance += outstandingBalance, for the partial
\* and pending sales with an outstanding balance above 0.
CashierOutstanding(ds) ==
    IF ds = <<>> THEN 0
    ELSE LET outstandingBalance == Max(0, ds[1].total - PaidOrTotal(ds[1]))
             isPartial == ds[1].paymentStatus \in {"partial", "pending"}
         IN  (IF isPartial /\ outstandingBalance > 0 THEN outstandingBalance ELSE 0)
                 + CashierOutstanding(Tail(ds))

\* GET /finance/reports/cashier-daily-sales, the summary of cashier c: for
\* managers only.
CashierDailySales(p, u, c) ==
    /\ CanStart(p)
    /\ Arrive
    /\ IF UserRole(u) # "manager"
       THEN AnswerRead("cashier_daily", u, "403", 0, {}, {})
       ELSE LET matched == SelectSeq(sales, LAMBDA d : CashierMatch(u, c, d))
            IN  AnswerReport("cashier_daily", u,
                             {j \in 1..Len(sales) : CashierMatch(u, c, sales[j])},
                             [revenue |-> SumOfPaidOrTotal(matched),
                              outstandingBalance |-> CashierOutstanding(matched)])

\* calculateGrowth of GET /finance/dashboard.  The division is exact on
\* the inputs of GrowthCurrents and GrowthPrevious.
CalculateGrowth(current, previous) ==
    IF previous = 0 THEN (IF current > 0 THEN 100 ELSE 0)
    ELSE ((current - previous) * 100) \div previous

\* salesGrowth of GET /finance/dashboard/home.
SalesGrowth(todayRevenue, yesterdayRevenue) ==
    IF yesterdayRevenue > 0
    THEN ((todayRevenue - yesterdayRevenue) * 100) \div yesterdayRevenue
    ELSE 0

\* The revenues of the current and of the previous period: every quotient
\* (current - previous) * 100 / previous is a whole number.
GrowthCurrents == {0, 50, 100, 150}

GrowthPrevious == {0, 50, 100}

\* The two dashboards compute their growth figure from the revenue of the
\* current and of the previous period.
Growth(p, u, current, previous) ==
    /\ CanStart(p)
    /\ Arrive
    /\ last' = [op |-> "growth", resp |-> "200", sale |-> 0, user |-> u,
                current |-> current, previous |-> previous,
                growth |-> CalculateGrowth(current, previous),
                salesGrowth |-> SalesGrowth(current, previous)]
    /\ UNCHANGED <<stock, sales, pc, loc>>

(* --------------------------- specifications --------------------------- *)

\* The checkout bodies with no tax, discount, change or cashierId of the
\* client's.
LedgerBodies ==
    {b \in CheckoutBodies :
        b.change = <<>> /\ b.tax = 0 /\ b.discount = 0 /\ b.cashierId = <<>>}

\* The synced documents that are paid in full, of any item, filed under
\* any manager.
LedgerSyncDocs ==
    {sd \in SyncDocs :
        /\ sd.items[1].subtotal = 10 /\ sd.discount = 0
        /\ sd.paidAmount = <<25>> /\ sd.paymentStatus = "completed"
        /\ sd.receiptNumber # <<>>
        /\ sd.managerId # <<>>}

\* The synced documents of manager m1's items filed under m1.
PaySyncDocs ==
    {sd \in SyncDocs :
        /\ sd.items[1].item = "i1"
        /\ sd.receiptNumber # <<>>
        /\ sd.managerId = <<"m1">>}

\* The steps of the checkout handlers in flight in the slots P, the
\* checkouts with the given lines, up to n of them, and bodies.
CheckoutStepsUpTo(P, lines, bodies, n) ==
    \/ \E p \in P, l \in lines : loc[p].k < n /\ CheckoutFind(p, l)
    \/ \E p \in P : CheckoutSave(p)
    \/ \E p \in P, body \in bodies : CheckoutPersist(p, body)

\* The steps of the refund handlers in flight in the slots P.
RefundSteps(P) ==
    \/ \E p \in P : RefundSave(p)
    \/ \E p \in P : RefundFind(p)
    \/ \E p \in P : RefundPut(p)

\* The steps of the checkout and refund handlers in flight in the slots P.
SaleSteps(P, lines, bodies) ==
    \/ CheckoutStepsUpTo(P, lines, bodies, MaxLines)
    \/ RefundSteps(P)

\* The steps of the item handlers in flight in the slots P.
ItemSteps(P) == \E p \in P : AdjustSave(p)

\* The checkout requests, and the refund requests, that arrive in the
\* slots P from the users U, while the collection holds up to n sales.
CheckoutRequestsUpTo(P, U, receipts, n) ==
    \E p \in P, u \in U, hasItems \in BOOLEAN, hasRequired \in BOOLEAN,
       receiptNumber \in receipts :
       /\ CanInsert(n, receiptNumber)
       /\ CheckoutStart(p, u, hasItems, hasRequired, receiptNumber)

RefundRequestsWithin(P, U, n, m) ==
    \E p \in P, u \in U, sid \in 1..n :
        CanRefund(sid, m) /\ RefundStart(p, u, sid)

RefundRequestsUpTo(P, U, n) == RefundRequestsWithin(P, U, n, MaxStock)

SaleRequestsUpTo(P, U, receipts, n) ==
    \/ CheckoutRequestsUpTo(P, U, receipts, n)
    \/ RefundRequestsUpTo(P, U, n)

SaleRequests(P, U, receipts) == SaleRequestsUpTo(P, U, receipts, MaxSales)

\* The bulk-syncs of the documents docs that arrive in the slots P from the
\* users U, while the collection holds up to n sales.
SyncsUpTo(P, U, docs, n) ==
    \E p \in P, u \in U, sd \in docs :
        /\ CanInsert(n, sd.receiptNumber)
        /\ BulkSync(p, u, sd)

Syncs(P, U, docs) == SyncsUpTo(P, U, docs, MaxSales)

\* The item requests that arrive in the slots P from the users U, about the
\* items I, the adjustments with the quantities Q.
ItemRequests(P, U, I, Q) ==
    \/ \E p \in P, u \in U, i \in I, mode \in AdjustModes, q \in Q :
          AdjustStart(p, u, i, mode, q)
    \/ \E p \in P, u \in U, i \in I, newStock \in -1..MaxQty :
          UpdateItem(p, u, i, newStock)

\* The users of the stock ledger: a manager, his cashier and a cashier
\* with no manager link.
LedgerUsers == {"m1", "c1", "c0"}

\* The users who bulk-sync in the stock ledger.
SyncUsers == {"c1"}

\* The stock ledger: checkout, refund and bulk-sync, one request at a
\* time, with the plain checkout bodies.
Next ==
    \/ SaleRequests(SeqProcs, LedgerUsers, ReceiptNumbers)
    \/ SaleSteps(SeqProcs, Lines, LedgerBodies)
    \/ Syncs(SeqProcs, SyncUsers, LedgerSyncDocs)

Spec == Init /\ [][Next]_vars

\* The sale computation: every operation that writes a sale, one request
\* at a time, by a manager and his cashier, with every checkout body.
PayUsers == {"m1", "c1"}

PayReceipts == {<<>>}

NextPay ==
    \/ SaleRequests(SeqProcs, PayUsers, PayReceipts)
    \/ SaleSteps(SeqProcs, Lines, CheckoutBodies)
    \/ Syncs(SeqProcs, PayUsers, PaySyncDocs)
    \/ Migrate

SpecPay == Init /\ [][NextPay]_vars

\* Requests in flight together, their steps interleaved: the checkouts,
\* refunds, stock adjustments and item updates of a manager on his item,
\* the checkouts paid in full.
ConcUsers == {"m1"}

ConcItems == {"i1"}

ConcLines == {l \in Lines : l.productId \in ConcItems /\ l.quantity >= 1}

ConcBodies == {b \in LedgerBodies : b.paidAmount = <<25>>}

NextConc ==
    \/ SaleRequests(Procs, ConcUsers, PayReceipts)
    \/ ItemRequests(Procs, ConcUsers, ConcItems, WholeQuantities)
    \/ SaleSteps(Procs, ConcLines, ConcBodies)
    \/ ItemSteps(Procs)

SpecConc == Init /\ [][NextConc]_vars

\* The reads of the sales and items, one request at a time, by every user,
\* of the sales that the checkouts paid in full and the bulk-syncs of a
\* linked and of an unlinked cashier have stored.
ReadSyncUsers == {"c1", "c0"}

SaleReads(P, U) ==
    \/ \E p \in P, u \in U : ListSales(p, u)
    \/ \E p \in P, u \in U, sid \in 1..MaxSales : GetSale(p, u, sid)
    \/ \E p \in P, u \in U : DashboardHome(p, u)

ItemReads(P, U) ==
    \/ \E p \in P, u \in U : ListItems(p, u)
    \/ \E p \in P, u \in U, i \in ItemIds \cup {NoItem} : GetItem(p, u, i)

NextRead ==
    \/ SaleRequests(SeqProcs, LedgerUsers, PayReceipts)
    \/ SaleSteps(SeqProcs, Lines, ConcBodies)
    \/ Syncs(SeqProcs, ReadSyncUsers, LedgerSyncDocs)
    \/ SaleReads(SeqProcs, UserIds)
    \/ ItemReads(SeqProcs, UserIds)
    \/ \E p \in SeqProcs, u \in UserIds : FinanceDashboard(p, u)

SpecRead == Init /\ [][NextRead]_vars

\* The stock adjustments and item updates, one request at a time, by every
\* user, on every item and on an id that names none.
NextStock ==
    \/ ItemRequests(SeqProcs, UserIds, ItemIds \cup {NoItem}, AdjustQuantities)
    \/ ItemSteps(SeqProcs)

SpecStock == Init /\ [][NextStock]_vars

\* The receipt numbers: a collection of up to MaxSalesWide sales, the
\* checkouts of a manager and his cashier with a generated receipt number
\* or the client's (one of them the number the generator gives the second
\* sale), and the bulk-syncs of two cashiers with the same receipt number.
ReceiptUsers == {"m1", "c1"}

ReceiptClients == ReceiptNumbers \cup {<<GenReceipt(2)>>}

ReceiptLines == {l \in Lines : l.productId \in {"i1", "i2"} /\ l.quantity = 1}

ReceiptSyncDocs ==
    {sd \in LedgerSyncDocs : sd.items[1].item = "i1" /\ sd.managerId = <<"m1">>}

NextReceipt ==
    \/ SaleRequestsUpTo(SeqProcs, ReceiptUsers, ReceiptClients, MaxSalesWide)
    \/ SaleSteps(SeqProcs, ReceiptLines, ConcBodies)
    \/ SyncsUpTo(SeqProcs, ReadSyncUsers, ReceiptSyncDocs, MaxSalesWide)

SpecReceipt == Init /\ [][NextReceipt]_vars

\* The line computation: the checkouts of a manager on his item, paid in
\* full, whose lines carry a price (none, 0, 7 or the stored price) and a
\* subtotal (none, 0 or 5) of the client's.
PricedLines ==
    [productId : {"i1"}, quantity : 1..MaxQty,
     price : {<<>>, <<0>>, <<7>>, <<ItemPrice("i1")>>},
     subtotal : {<<>>, <<0>>, <<5>>}]

NextLine ==
    \/ SaleRequests(SeqProcs, ConcUsers, PayReceipts)
    \/ SaleSteps(SeqProcs, PricedLines, ConcBodies)

SpecLine == Init /\ [][NextLine]_vars

\* The race of two checkouts: two requests in flight together, each a
\* checkout by the manager of one line of his item, paid in full, in a
\* collection of up to MaxSalesWide sales.
NextRace ==
    \/ CheckoutRequestsUpTo(Procs, ConcUsers, PayReceipts, MaxSalesWide)
    \/ CheckoutStepsUpTo(Procs, ConcLines, ConcBodies, 1)

SpecRace == Init /\ [][NextRace]_vars

\* The checkouts that stop: the checkouts of the stock ledger, one request
\* at a time, and the process stopping in the middle of one.
NextCrash ==
    \/ CheckoutRequestsUpTo(SeqProcs, LedgerUsers, PayReceipts, MaxSales)
    \/ CheckoutStepsUpTo(SeqProcs, Lines, LedgerBodies, MaxLines)
    \/ \E p \in SeqProcs : CheckoutCrash(p)

SpecCrash == Init /\ [][NextCrash]_vars

\* The refunds repeated: the checkouts of a manager and his cashier, paid
\* in full, their bulk-syncs and their refund requests, one request at a
\* time, the stock free to grow by every refund the notes have room for.
NextRefund ==
    \/ CheckoutRequestsUpTo(SeqProcs, PayUsers, PayReceipts, MaxSales)
    \/ RefundRequestsWithin(SeqProcs, PayUsers, MaxSales,
                            MaxStock + MaxNotes * MaxLines * MaxQty)
    \/ SaleSteps(SeqProcs, Lines, ConcBodies)
    \/ Syncs(SeqProcs, PayUsers, LedgerSyncDocs)

SpecRefund == Init /\ [][NextRefund]_vars

\* The reports over a stored collection: the collection holds up to
\* MaxReportSales sales as bulk-sync stores them, of manager m1, rung by
\* the manager or by cashier c1, each of one line of 500 or 6000, with
\* nothing, 500 or 6000 paid.
MaxReportSales == 2

ReportAmounts == {500, 6000}

ReportPaidAmounts == {Null, <<0>>, <<500>>, <<6000>>}

\* The document of a report sale as the client sends it.
ReportSyncDoc(amount, paid, cashierId) ==
    [receiptNumber |-> 0,
     items |-> <<[item |-> "i1", price |-> amount, quantity |-> 1, subtotal |-> amount]>>,
     subtotal |-> amount, total |-> amount, tax |-> 0, discount |-> 0,
     paidAmount |-> paid, change |-> <<>>, paymentStatus |-> "completed",
     notes |-> 0, userId |-> IF cashierId = <<>> THEN "m1" ELSE cashierId[1],
     managerId |-> <<"m1">>, cashierId |-> cashierId]

\* The documents as they are stored: the defaults, then the pre-save hook.
ReportDocs ==
    {PreSave(SaleDefaults(ReportSyncDoc(amount, paid, cashierId))) :
        amount \in ReportAmounts, paid \in ReportPaidAmounts,
        cashierId \in {<<>>, <<"c1">>}}

\* The collections: the j-th sale has the j-th receipt number.
ReportCollections ==
    UNION {[1..n -> ReportDocs] : n \in 0..MaxReportSales}

InitReport ==
    /\ stock = [i \in ItemIds |-> InitStock]
    /\ \E c \in ReportCollections :
          sales = [j \in 1..Len(c) |-> [c[j] EXCEPT !.receiptNumber = GenReceipt(j)]]
    /\ pc = [p \in Procs |-> "idle"]
    /\ loc = [p \in Procs |-> NoLoc]
    /\ last = NoLast
    /\ stock0 = stock
    /\ sales0 = sales
    /\ before = <<>>

ReportUsers == {"m1", "c1"}

NextReport ==
    \/ \E p \in SeqProcs, u \in ReportUsers : DashboardHome(p, u)
    \/ \E p \in SeqProcs, u \in ReportUsers : FinanceDashboard(p, u)
    \/ \E p \in SeqProcs, u \in ReportUsers : DailySales(p, u)
    \/ \E p \in SeqProcs, u \in ReportUsers, c \in CashiersOf("m1") : CashierStats(p, u, c)
    \/ \E p \in SeqProcs, u \in ReportUsers, c \in CashiersOf("m1") : CashierDailySales(p, u, c)
    \/ \E p \in SeqProcs, u \in ReportUsers,
          current \in GrowthCurrents, previous \in GrowthPrevious :
          Growth(p, u, current, previous)

SpecReport == InitReport /\ [][NextReport]_vars

(* ------------------------------- claims ------------------------------- *)

\* The latest request was a checkout answered r.
CheckoutAnswered(r) == last.op = "checkout" /\ last.resp = r

\* Nothing stored has changed since the latest request arrived.
NothingChanged == stock = stock0 /\ sales = sales0

\* C1: a checkout that fails because a line asks for more than the stock
\* of its item persists no sale and leaves the stock of every item, the
\* items of the earlier lines included, at its value before the request.
C1_InsufficientStockChangesNothing ==
    CheckoutAnswered("400_stock") => NothingChanged

\* C2: after a refund has succeeded, the persisted paymentStatus of the
\* sale is "refunded".
C2_RefundedIsPersisted ==
    (last.op = "refund" /\ last.resp = "200")
        => sales[last.sale].paymentStatus = "refunded"

\* C3: a successful refund increases the stock of every item by the
\* quantity the sale's lines hold of it (nothing for an item of no line),
\* and the refund of the sale the checkout before it created returns the
\* stock to its value before that checkout.
C3_RefundRestoresQuantities ==
    (last.op = "refund" /\ last.resp = "200") =>
        /\ \A i \in ItemIds :
              stock[i] = stock0[i] + QtyOf(sales[last.sale].items, i)
        /\ (before # <<>> /\ before[1].sale = last.sale)
              => stock = before[1].stock

\* A checkout of two lines of one item has been refunded by the next
\* request.
C3_Witness ==
    /\ last.op = "refund" /\ last.resp = "200"
    /\ before # <<>> /\ before[1].sale = last.sale
    /\ Len(sales[last.sale].items) = 2
    /\ sales[last.sale].items[1].item = sales[last.sale].items[2].item
    /\ stock # stock0

\* C4: a refund request for a sale that does not exist, is outside the
\* caller's scope (its managerId is not the manager's id, or not the id of
\* the cashier's manager) or is not completed is answered 404: no refund
\* gets past the query on such a sale, and a refund answered 404 changes
\* no sale and no stock.
C4_RefundRejectedOutsideScope ==
    /\ \A p \in Procs :
          pc[p] \in {"rf_save", "rf_loop", "rf_put"} =>
              LET u == loc[p].user
                  d == sales0[loc[p].sale]
              IN  /\ d.paymentStatus = "completed"
                  /\ IF UserRole(u) = "manager"
                     THEN d.managerId = <<u>>
                     ELSE UserManagerId(u) # <<>> /\ d.managerId = UserManagerId(u)
    /\ (last.op = "refund" /\ last.resp = "404_sale") => NothingChanged

\* C5: a persisted sale that is not refunded or failed and holds a number
\* as paidAmount is pending when paidAmount = 0, partial when
\* 0 < paidAmount < total, and completed when paidAmount >= total.
C5_StatusOfPaidAmount ==
    \A j \in 1..Len(sales) :
        LET d == sales[j]
        IN  (d.paymentStatus \notin {"refunded", "failed"}
             /\ d.paidAmount \notin {<<>>, Null}) =>
                /\ d.paidAmount[1] = 0 => d.paymentStatus = "pending"
                /\ (0 < d.paidAmount[1] /\ d.paidAmount[1] < d.total)
                      => d.paymentStatus = "partial"
                /\ d.paidAmount[1] >= d.total => d.paymentStatus = "completed"

\* C5, with the first case taking precedence: a persisted sale that is not
\* refunded or failed and holds a number as paidAmount is pending when
\* paidAmount = 0 (whatever the total), partial when 0 < paidAmount < total,
\* and completed when paidAmount > 0 and paidAmount >= total.
C5_StatusOfPaidAmountZeroFirst ==
    \A j \in 1..Len(sales) :
        LET d == sales[j]
        IN  (d.paymentStatus \notin {"refunded", "failed"}
             /\ d.paidAmount \notin {<<>>, Null}) =>
                /\ d.paidAmount[1] = 0 => d.paymentStatus = "pending"
                /\ (0 < d.paidAmount[1] /\ d.paidAmount[1] < d.total)
                      => d.paymentStatus = "partial"
                /\ (0 < d.paidAmount[1] /\ d.paidAmount[1] >= d.total)
                      => d.paymentStatus = "completed"

\* The checkout of one line of price 10 and quantity 2, no tax, no
\* discount, paidAmount 15, is stored as partial.
C5_Witness ==
    /\ CheckoutAnswered("201")
    /\ LET d == sales[last.sale]
       IN  /\ Len(d.items) = 1
           /\ d.items[1].price = 10 /\ d.items[1].quantity = 2
           /\ d.tax = 0 /\ d.discount = 0
           /\ d.paidAmount = <<15>>
           /\ d.paymentStatus = "partial"

\* C6: every persisted sale has subtotal = the sum of its lines' subtotals
\* and total = subtotal + tax - discount, whatever total the client
\* declared.
C6_TotalsDerived ==
    \A j \in 1..Len(sales) :
        /\ sales[j].subtotal = SumSubtotals(sales[j].items)
        /\ sales[j].total = sales[j].subtotal + sales[j].tax - sales[j].discount

\* A checkout whose body declared a total of 20 has stored another total.
C6_Witness ==
    /\ CheckoutAnswered("201")
    /\ sales[last.sale].total # 20
    /\ sales[last.sale].tax # 0

\* C7: every persisted sale that holds a number as paidAmount has
\* change = max(0, paidAmount - total), total being the persisted total.
C7_ChangeDerived ==
    \A j \in 1..Len(sales) :
        sales[j].paidAmount \notin {<<>>, Null} =>
            sales[j].change = <<Max(0, sales[j].paidAmount[1] - sales[j].total)>>

\* C8: the stock of every item is >= 0 in every state, whatever the
\* interleaving of the checkouts, refunds, stock adjustments and item
\* updates.
C8_StockNeverNegative == \A i \in ItemIds : stock[i] >= 0

\* A checkout is about to write the stock it computed from a document that
\* another request has overwritten since, while a second request is in
\* flight.
C8_Witness ==
    \E p \in Procs, q \in Procs :
        /\ p # q
        /\ pc[p] = "co_save"
        /\ loc[p].doc # stock[loc[p].line[1].productId]
        /\ loc[p].doc >= loc[p].line[1].quantity
        /\ pc[q] \in {"adj_save", "rf_put"}

\* C9: a successful checkout appends exactly one sale to the collection,
\* changes no other sale, and decreases the stock of every item by the
\* quantity the request's lines hold of it (nothing for an item of no
\* line).
C9_CheckoutDecrementsRequested ==
    CheckoutAnswered("201") =>
        /\ Len(sales) = Len(sales0) + 1
        /\ last.sale = Len(sales)
        /\ SubSeq(sales, 1, Len(sales0)) = sales0
        /\ \A i \in ItemIds :
              stock[i] = stock0[i] - QtyOf(sales[last.sale].items, i)

\* A checkout of two lines of one item has succeeded.
C9_Witness ==
    /\ CheckoutAnswered("201")
    /\ Len(sales[last.sale].items) = 2
    /\ sales[last.sale].items[1].item = sales[last.sale].items[2].item
    /\ stock[sales[last.sale].items[1].item] = stock0[sales[last.sale].items[1].item] - 2

\* C10: a checkout rejected for a reason other than insufficient stock (an
\* invalid line, an unknown item, a cashier with no manager, a sale
\* document the save rejects) leaves the stock of every item unchanged and
\* persists no sale.
C10_RejectedCheckoutChangesNothing ==
    (last.op = "checkout"
     /\ last.resp \in {"400_input", "400_line", "404_item", "400_link", "500"})
        => NothingChanged

\* C11: the checkout loop accepts a line exactly when its item is in the
\* caller's owning scope: a handler that holds the document of a line's
\* item has a caller whose scope holds the item, and a handler at the top
\* of the loop can take every valid line of an item of the caller's scope.
C11_CheckoutAcceptsScopeItems ==
    \A p \in Procs :
        /\ pc[p] = "co_save" => ItemInScope(loc[p].user, loc[p].line[1].productId)
        /\ (pc[p] = "co_loop" /\ loc[p].k < MaxLines) =>
              \A l \in Lines :
                  (l.quantity >= 1 /\ ItemInScope(loc[p].user, l.productId))
                      => ENABLED (CheckoutFind(p, l) /\ pc'[p] = "co_save")

\* The latest request was a read of sales or items.
ReadAnswered == last.op \in ReadOps

\* Sale d is in the resolved scope of user u: its managerId is the
\* manager's id, or the id of the cashier's linked manager.
SaleInScope(u, d) ==
    IF UserRole(u) = "manager"
    THEN d.managerId = <<u>>
    ELSE UserManagerId(u) # <<>> /\ d.managerId = UserManagerId(u)

\* C12: every sale and every item a read returns is in the resolved scope
\* of the actor who asked.
C12_ReadsReturnScopeOnly ==
    ReadAnswered =>
        /\ \A j \in last.docs : SaleInScope(last.user, sales[j])
        /\ \A i \in last.items : ItemInScope(last.user, i)

\* C13: the sales list and the home dashboard of a linked cashier cover
\* every sale whose managerId is the cashier's manager, and the sale by id
\* returns such a sale.
C13_CashierReadsCoverPool ==
    (ReadAnswered /\ UserRole(last.user) = "cashier"
     /\ UserManagerId(last.user) # <<>>) =>
        /\ last.op \in {"list", "home"} =>
              \A j \in 1..Len(sales) :
                  sales[j].managerId = UserManagerId(last.user) => j \in last.docs
        /\ (last.op = "get" /\ last.sale \in 1..Len(sales)
            /\ sales[last.sale].managerId = UserManagerId(last.user))
              => last.resp = "200"

\* C14: a read of sales or items by a cashier whose record has no managerId
\* is answered "not linked" and returns no document, and no refund of such
\* a cashier gets past its query.
C14_UnlinkedCashierNotLinked ==
    /\ (ReadAnswered /\ UserRole(last.user) = "cashier"
        /\ UserManagerId(last.user) = <<>>) =>
           /\ last.resp = "400_link"
           /\ last.docs = {} /\ last.items = {}
    /\ \A p \in Procs :
          pc[p] \in {"rf_save", "rf_loop", "rf_put"} =>
              ~(UserRole(loc[p].user) = "cashier" /\ UserManagerId(loc[p].user) = <<>>)

RECURSIVE PaidOver(_)
\* The sum of paidAmount over the stored sales whose ids are in S.
PaidOver(S) ==
    IF S = {} THEN 0
    ELSE LET j == CHOOSE k \in S : TRUE
         IN  Num(sales[j].paidAmount) + PaidOver(S \ {j})

RECURSIVE OutstandingOver(_)
\* The sum of max(0, total - paidAmount) over the stored sales whose ids
\* are in S.
OutstandingOver(S) ==
    IF S = {} THEN 0
    ELSE LET j == CHOOSE k \in S : TRUE
         IN  Max(0, sales[j].total - Num(sales[j].paidAmount))
                 + OutstandingOver(S \ {j})

\* C15: the todaySales of the home dashboard is the sum of paidAmount over
\* the sales it matched, and equals the handler's manual sum over the same
\* match.
C15_HomeRevenueIsPaidSum ==
    (last.op = "home" /\ last.resp = "200") =>
        /\ last.figures.todaySales = PaidOver(last.docs)
        /\ last.figures.todaySales = last.figures.manualSum

\* The home dashboard of two sales with paidAmount 500 and 6000 reports
\* 6500.
C15_Witness ==
    /\ last.op = "home" /\ last.resp = "200"
    /\ last.docs = {1, 2}
    /\ sales[1].paidAmount = <<500>> /\ sales[2].paidAmount = <<6000>>
    /\ sales[1].total # 500
    /\ last.figures.todaySales = 6500

\* C16: the revenue figure of GET /finance/dashboard, of GET
\* /sales/daily/:date, of the cashierStats of GET /sales/cashiers and of
\* the cashier-daily-sales report is the sum of paidAmount over the sales
\* the report matched.
C16_ReportsSumPaidAmount ==
    (last.op \in {"dashboard", "daily", "stats", "cashier_daily"}
     /\ last.resp = "200")
        => last.figures.revenue = PaidOver(last.docs)

\* C17: the todayOutstanding of the home dashboard and the per-cashier
\* outstandingBalance of the cashier-daily-sales report are the sum of
\* max(0, total - paidAmount) over the sales matched.
C17_OutstandingIsShortfallSum ==
    /\ (last.op = "home" /\ last.resp = "200")
          => last.figures.todayOutstanding = OutstandingOver(last.docs)
    /\ (last.op = "cashier_daily" /\ last.resp = "200")
          => last.figures.outstandingBalance = OutstandingOver(last.docs)

\* The piecewise rule: 0 when current = 0, 100 when previous = 0 and
\* current > 0, otherwise (current - previous) / previous * 100.
GrowthRule(current, previous) ==
    IF current = 0 THEN 0
    ELSE IF previous = 0 THEN 100
    ELSE ((current - previous) * 100) \div previous

\* C18: the growth of GET /finance/dashboard and the salesGrowth of the
\* home dashboard both follow the piecewise rule.
C18_GrowthFollowsRule ==
    last.op = "growth" =>
        /\ last.growth = GrowthRule(last.current, last.previous)
        /\ last.salesGrowth = GrowthRule(last.current, last.previous)

\* C19: the sale a checkout persists has userId = the acting user; for a
\* manager its managerId is the manager; for a cashier its managerId is
\* the cashier's manager and its cashierId the cashier; and a cashierId it
\* holds is that of a cashier of its managerId.
C19_CheckoutOwnership ==
    [][\A p \in Procs :
          (pc[p] = "co_loop" /\ pc'[p] = "idle"
           /\ last'.op = "checkout" /\ last'.resp = "201") =>
              LET d == sales'[last'.sale]
                  u == loc[p].user
              IN  /\ d.userId = u
                  /\ UserRole(u) = "manager" => d.managerId = <<u>>
                  /\ UserRole(u) = "cashier" =>
                        d.managerId = UserManagerId(u) /\ d.cashierId = <<u>>
                  /\ d.cashierId # <<>> =>
                        UserManagerId(d.cashierId[1]) = d.managerId]_vars

AdjustAnswered == last.op = "adjust"

\* The item of the adjustment answered last is in the scope of its caller:
\* the item's managerId is the manager, or the manager of the cashier.
AdjustInScope ==
    /\ last.item \in ItemIds
    /\ IF UserRole(last.user) = "manager"
       THEN ItemManagerId(last.item) = last.user
       ELSE UserManagerId(last.user) = <<ItemManagerId(last.item)>>

\* The adjustment answered last is one the handler must reject.
AdjustRejectable == last.quantity = <<>> \/ last.quantity[1] < 0 \/ ~AdjustInScope

\* C21: an adjustment of an in-scope item of stock s by a quantity q >= 0
\* leaves stock = q with set, s + q with add and max(0, s - q) with
\* subtract (the quantities counted in halves, so twice the stock against
\* the quantity's halves); a negative or missing quantity, or an item
\* outside the caller's scope, is rejected and the stock is unchanged.
C21_AdjustSetsAddsSubtracts ==
    AdjustAnswered =>
        IF AdjustRejectable
        THEN last.resp # "200" /\ NothingChanged
        ELSE LET s == stock0[last.item]
                 h == last.quantity[1]
             IN  /\ last.resp = "200"
                 /\ \A i \in ItemIds \ {last.item} : stock[i] = stock0[i]
                 /\ 2 * stock[last.item] =
                       CASE last.mode = "set" -> h
                         [] last.mode = "add" -> 2 * s + h
                         [] OTHER -> Max(0, 2 * s - h)

\* The whole part of a quantity of h halves: the largest n with n <= h / 2.
WholePart(h) == CHOOSE n \in 0..h : 2 * n <= h /\ h < 2 * n + 2

\* C21, with the quantity read as a whole number: the adjustment applies
\* the whole part w of the quantity q >= 0 (a whole q itself): set leaves
\* stock = w, add s + w, subtract max(0, s - w); a negative or missing
\* quantity, or an item outside the caller's scope, is rejected and the
\* stock is unchanged.
C21_AdjustAppliesWholePart ==
    AdjustAnswered =>
        IF AdjustRejectable
        THEN last.resp # "200" /\ NothingChanged
        ELSE LET s == stock0[last.item]
                 w == WholePart(last.quantity[1])
             IN  /\ last.resp = "200"
                 /\ sales = sales0
                 /\ \A i \in ItemIds \ {last.item} : stock[i] = stock0[i]
                 /\ last.mode = "set" => stock[last.item] = w
                 /\ last.mode = "add" => stock[last.item] = s + w
                 /\ last.mode = "subtract" =>
                       stock[last.item] = (IF s > w THEN s - w ELSE 0)

\* A cashier has subtracted more than the stock of an item of his manager,
\* and the stock is 0.
C21_Witness ==
    /\ AdjustAnswered /\ last.resp = "200"
    /\ last.user = "c1" /\ last.mode = "subtract"
    /\ stock0[last.item] = 1 /\ last.quantity = <<4>>
    /\ stock[last.item] = 0

\* C22: no two persisted sales have the same receiptNumber.
C22_ReceiptNumbersUnique ==
    \A j, k \in 1..Len(sales) :
        sales[j].receiptNumber = sales[k].receiptNumber => j = k

\* Two sales are stored, one under a client's receipt number, and the
\* latest request, which carried a stored receipt number, was refused: a
\* checkout answered 500, or a bulk-sync by a user who is not the stored
\* sale's.
C22_Witness ==
    /\ Len(sales) = 2
    /\ \E j \in 1..2 : sales[j].receiptNumber = 7
    /\ sales = sales0
    /\ \/ CheckoutAnswered("500")
       \/ last.op = "sync" /\ last.resp = "200_failed"

\* The latest request was a run of the paid-amount migration.
Migrated == last.op = "migrate"

\* C23: the paid-amount migration is idempotent (a second run leaves every
\* sale as the first run left it, so it updates no record), a run sets
\* paidAmount = total on the completed sales with no paid amount and leaves
\* them completed, and it leaves the paidAmount of the partial sales as it
\* was (no paid amount counting as 0).
C23_MigrationIdempotent ==
    Migrated =>
        \A j \in 1..Len(sales) :
            /\ MigrateSale(sales[j]) = sales[j]
            /\ (sales0[j].paymentStatus = "completed"
                /\ sales0[j].paidAmount \in {<<>>, Null}) =>
                    /\ sales[j].paidAmount = <<sales[j].total>>
                    /\ sales[j].paymentStatus = "completed"
            /\ sales0[j].paymentStatus = "partial" =>
                    IfNull(sales[j].paidAmount) = IfNull(sales0[j].paidAmount)

\* The subtotal of request line l, a supplied 0 being a supplied value.
LineSubtotal(l) ==
    LET unit == IF l.price # <<>> THEN l.price[1] ELSE ItemPrice(l.productId)
    IN  IF l.subtotal # <<>> THEN l.subtotal[1] ELSE unit * l.quantity

\* C24: the line a checkout records for a request line holds the subtotal
\* the request supplies, a supplied 0 included, and otherwise the unit price
\* (the request's when it supplies one, otherwise the item's stored price)
\* times the quantity; the sale persists the lines recorded, and its
\* subtotal is their sum (20 for one line of price 10 and quantity 2).
C24_LineSubtotalHonoured ==
    [][\A p \in SeqProcs :
          /\ (pc[p] = "co_save" /\ pc'[p] = "co_loop") =>
                loc'[p].saleItems[Len(loc'[p].saleItems)].subtotal
                    = LineSubtotal(loc[p].line[1])
          /\ (pc[p] = "co_loop" /\ Len(sales') = Len(sales) + 1) =>
                /\ sales'[Len(sales')].items = loc[p].saleItems
                /\ sales'[Len(sales')].subtotal = SumSubtotals(loc[p].saleItems)
      ]_vars

\* No request is in flight.
Quiet == \A p \in Procs : pc[p] = "idle"

\* The quantity of item i that the persisted sales numbered in S have sold.
RECURSIVE SoldBy(_, _)
SoldBy(S, i) ==
    IF S = {} THEN 0
    ELSE LET j == CHOOSE k \in S : TRUE
         IN  QtyOf(sales[j].items, i) + SoldBy(S \ {j}, i)

\* C25: two checkouts of one item can both succeed on the same stock read:
\* whenever the persisted sales have together sold more of the item than
\* the stock that was available, the final stock is the available stock
\* less the quantities of some of the sales only (of one of the two, when
\* there are two), the decrements of the others being lost.
C25_OversoldKeepsOneDecrement ==
    LET all == 1..Len(sales)
    IN  (Quiet /\ SoldBy(all, "i1") > InitStock) =>
            \E S \in (SUBSET all) \ {{}, all} :
                stock["i1"] = InitStock - SoldBy(S, "i1")

\* Both checkouts have succeeded, the two sales have sold twice the stock
\* that was available, and the stock holds one decrement.
C25_Witness ==
    /\ Quiet /\ Len(sales) = 2
    /\ CheckoutAnswered("201")
    /\ QtyOf(sales[1].items, "i1") = InitStock
    /\ QtyOf(sales[2].items, "i1") = InitStock
    /\ stock["i1"] = 0

\* The latest checkout stopped before its sale was inserted.
CheckoutStopped == last.op = "checkout" /\ last.resp = "crashed"

\* After a checkout that stopped: no sale, and the stock less the quantity
\* of every line whose decrement was saved.
StoppedKeepsDecrements ==
    CheckoutStopped =>
        /\ sales = sales0
        /\ \A i \in ItemIds : stock[i] = stock0[i] - QtyOf(last.items, i)

\* C26: a checkout that stops after the decrement of at least one line has
\* been saved and before the sale is inserted leaves the stock decremented
\* and no sale, and no step of a checkout, the stop included, gives stock
\* back.
C26_StoppedCheckoutKeepsDecrement ==
    [][StoppedKeepsDecrements' /\ \A i \in ItemIds : stock'[i] <= stock[i]]_vars

\* A checkout has stopped after the decrements of two lines: the stock is
\* lower than when it arrived, and there is no sale.
C26_Witness ==
    /\ CheckoutStopped
    /\ Len(last.items) = 2
    /\ \E i \in ItemIds : stock[i] < stock0[i]
    /\ sales = <<>>

\* C27: the stock of a sale's lines is restored at most once: no refund
\* request gets past the query on a sale that a refund has already
\* succeeded on (its notes hold a refund reason), and, there being no
\* explicit adjustment, no item's stock exceeds its initial value.
C27_RestoredAtMostOnce ==
    /\ \A p \in Procs :
          pc[p] \in {"rf_save", "rf_loop", "rf_put"}
              => sales0[loc[p].sale].notes = 0
    /\ \A i \in ItemIds : stock[i] <= InitStock

\* The checkout in flight in slot p carries the receipt number of a
\* persisted sale.
Resubmitted(p) ==
    /\ pc[p] \in {"co_loop", "co_save"}
    /\ loc[p].receiptNumber # <<>>
    /\ ReceiptTaken(loc[p].receiptNumber[1])

\* C28: a checkout resubmitted with the receipt number of a persisted sale
\* creates no second sale and leaves the stock of every item as it was: no
\* step of its handler changes the sales or the stock.
C28_ResubmissionChangesNothing ==
    [][\A p \in SeqProcs : Resubmitted(p) => (sales' = sales /\ stock' = stock)]_vars

\* Item i is in the owning scope of user u: its managerId is the manager,
\* or the manager the cashier is linked to.
InOwningScope(u, i) ==
    IF UserRole(u) = "manager"
    THEN ItemManagerId(i) = u
    ELSE UserManagerId(u) = <<ItemManagerId(i)>>

\* C29: no request changes the stock of an item outside its caller's
\* owning scope: every step that changes the stock of an item is a step of
\* a handler whose caller has the item in scope, the restore loop of a
\* refund included.
C29_StockChangesWithinScope ==
    [][\A i \in ItemIds :
          stock'[i] # stock[i] =>
              \E p \in SeqProcs : pc[p] # "idle" /\ InOwningScope(loc[p].user, i)
      ]_vars

\* The fields of a sale that a refund is to leave alone.
RefundFrame ==
    {"receiptNumber", "items", "subtotal", "tax", "discount", "total",
     "paidAmount", "change", "userId", "managerId", "cashierId"}

\* No step of a refund in flight changes a field of the frame of any sale.
RefundKeepsFrame ==
    \A p \in SeqProcs :
        pc[p] \in {"rf_save", "rf_loop", "rf_put"} =>
            /\ Len(sales') = Len(sales)
            /\ \A j \in 1..Len(sales), f \in RefundFrame : sales'[j][f] = sales[j][f]

\* Sale j has been refunded (its notes hold a refund reason) and its owner
\* fields match the caller of the revenue figure answered last: the
\* manager's or the cashier's sales for the home dashboard, the caller's own
\* for the finance dashboard.
RefundedInScope(j) ==
    /\ sales[j].notes >= 1
    /\ IF last.op = "home"
       THEN DashboardFilter(last.user, sales[j])
       ELSE sales[j].userId = last.user

\* The revenue figure answered last counts every refunded sale that matches
\* its caller, with its paidAmount: the figure is the sum of paidAmount over
\* the sales it counts.
RefundedStillCounted ==
    (/\ last.op \in {"home", "dashboard"} /\ last.resp = "200"
     /\ \E j \in 1..Len(sales) : RefundedInScope(j)) =>
        /\ \A j \in 1..Len(sales) : RefundedInScope(j) => j \in last.docs
        /\ (IF last.op = "home" THEN last.figures.todaySales
                                ELSE last.figures.revenue) = PaidOver(last.docs)

\* C30: a refund changes only the sale's paymentStatus and notes (its line
\* items, subtotal, tax, discount, total, paidAmount, change and owner
\* fields are unchanged), so the refunded sale still contributes its
\* paidAmount to every totalRevenue figure whose scope matches it.
C30_RefundFrameAndRevenue ==
    [][RefundKeepsFrame /\ RefundedStillCounted']_vars

====
